---- MODULE Spec2Model ----
(***************************************************************************)
(* Model of backend/optimization-scripts/schedule_optimizer.py: the CP-SAT *)
(* model builder (ScheduleOptimizerORTools), its solve() orchestrator and  *)
(* main().  Python dicts are TLA+ functions whose DOMAIN is the set of     *)
(* keys present, so dict.get(key, default) and a KeyError on dict[key] are *)
(* both expressible.  A date string "YYYY-MM-DD" is the triple <<Y, M, D>> *)
(* of its numeric fields; a time string "HH:MM" is the tuple of the        *)
(* integers between its colons (<<9>> is the string "9").                  *)
(***************************************************************************)
EXTENDS Integers, Sequences, FiniteSets, TLC

\* ------------------------------------------------------------------ bounds
MaxShifts == 3
MaxEmployees == 2
MaxSameDate == 3
NumYears == 6

\* ------------------------------------------------- OR-Tools status codes
cp_UNKNOWN == 0
cp_MODEL_INVALID == 1
cp_FEASIBLE == 2
cp_INFEASIBLE == 3
cp_OPTIMAL == 4
\* a status code outside the status map
cp_UNMAPPED == 5

VARIABLES
    problem_data,   \* the parsed input JSON handed to the constructor
    pc,             \* position of main(): start, constructed, built, solving,
                    \* solved, error, exited
    shifts,         \* self.shifts: insertion-ordered dict, as a sequence of records
    employees,      \* self.employees: insertion-ordered dict, as a sequence of records
    preferences,    \* self.preferences
    model,          \* self.model: the variables, constraints and objective emitted
    solver_calls,   \* number of times solver.Solve() has been invoked
    status,         \* the status code solver.Solve() returned (-1: none yet)
    result,         \* the dict solve() returned (<<>>: none yet)
    output,         \* the "status" field of the payload main() wrote ("": none yet)
    exit_code,      \* the code given to sys.exit (-1: still running)
    week_args,      \* the arguments of the _get_week_key calls under SpecWeek
    week_keys,      \* their results
    overlapping     \* the result of _find_overlapping_shifts under SpecOverlap

vars == <<problem_data, pc, shifts, employees, preferences, model, solver_calls,
          status, result, output, exit_code, week_args, week_keys, overlapping>>

\* ----------------------------------------------------------- dict helpers
Has(d, k) == k \in DOMAIN d

\* dict.get(k, default)
Get(d, k, default) == IF k \in DOMAIN d THEN d[k] ELSE default

Range(s) == {s[i] : i \in DOMAIN s}

RECURSIVE SumOver(_, _)
\* sum(f[x] for x in S)
SumOver(S, f) ==
    IF S = {} THEN 0
    ELSE LET x == CHOOSE y \in S : TRUE IN f[x] + SumOver(S \ {x}, f)

\* ------------------------------------------------------------------ dates
is_leap(y) == y % 4 = 0 /\ (y % 100 # 0 \/ y % 400 = 0)

days_in_month(y, m) ==
    IF m = 2 THEN (IF is_leap(y) THEN 29 ELSE 28)
    ELSE IF m \in {4, 6, 9, 11} THEN 30 ELSE 31

\* datetime.strptime(date_str, '%Y-%m-%d') raises ValueError unless this holds
ValidDate(d) ==
    /\ Len(d) = 3
    /\ d[1] \in 1..9999
    /\ d[2] \in 1..12
    /\ d[3] \in 1..days_in_month(d[1], d[2])

days_before_year(y) ==
    LET p == y - 1 IN p * 365 + (p \div 4) - (p \div 100) + (p \div 400)

days_before_month(y, m) ==
    SumOver(1..(m - 1), [k \in 1..12 |-> days_in_month(y, k)])

\* proleptic Gregorian ordinal of a date (0001-01-01 is day 1)
ymd2ord(d) == days_before_year(d[1]) + days_before_month(d[1], d[2]) + d[3]

\* ordinal of the Monday that starts ISO week 1 of year y
isoweek1monday(y) ==
    LET firstday == ymd2ord(<<y, 1, 1>>)
        firstweekday == (firstday + 6) % 7
        week1monday == firstday - firstweekday
    IN  IF firstweekday > 3 THEN week1monday + 7 ELSE week1monday

\* date.isocalendar(): <<ISO year, ISO week number, ISO weekday>>
isocalendar(d) ==
    LET today == ymd2ord(d)
        off == today - isoweek1monday(d[1])
    IN  IF off < 0
        THEN LET o2 == today - isoweek1monday(d[1] - 1)
             IN  <<d[1] - 1, (o2 \div 7) + 1, (o2 % 7) + 1>>
        ELSE IF (off \div 7) >= 52 /\ today >= isoweek1monday(d[1] + 1)
        THEN <<d[1] + 1, 1, (off % 7) + 1>>
        ELSE <<d[1], (off \div 7) + 1, (off % 7) + 1>>

\* the string f"{date.year}-W{date.isocalendar()[1]}", as the pair of its numbers
_get_week_key(date_str) == <<date_str[1], isocalendar(date_str)[2]>>

\* the ISO calendar week a date falls in: ISO year and ISO week number
IsoWeekOf(d) == <<isocalendar(d)[1], isocalendar(d)[2]>>

\* string order of two "YYYY-MM-DD" strings, as sorted() uses it
DateBefore(a, b) ==
    \/ a[1] < b[1]
    \/ a[1] = b[1] /\ a[2] < b[2]
    \/ a[1] = b[1] /\ a[2] = b[2] /\ a[3] < b[3]

RECURSIVE SortedDates(_)
\* sorted(shifts_by_date.keys())
SortedDates(S) ==
    IF S = {} THEN <<>>
    ELSE LET m == CHOOSE x \in S : \A y \in S \ {x} : DateBefore(x, y)
         IN  <<m>> \o SortedDates(S \ {m})

\* ------------------------------------------------------------------ times
\* time_str.split(':') has the two parts _parse_time reads
ValidTime(t) == Len(t) >= 2

\* minutes since midnight
_parse_time(time_str) == time_str[1] * 60 + time_str[2]

_calculate_shift_hours(shift) ==
    LET start == _parse_time(shift["start_time"])
        end == _parse_time(shift["end_time"])
        end2 == IF end < start THEN end + 24 * 60 ELSE end
    IN  (end2 - start) \div 60

_shifts_overlap(shift1, shift2) ==
    LET start1 == _parse_time(shift1["start_time"])
        end1 == _parse_time(shift1["end_time"])
        start2 == _parse_time(shift2["start_time"])
        end2 == _parse_time(shift2["end_time"])
    IN  ~(end1 <= start2 \/ end2 <= start1)

\* ------------------------------------------------------- the input space
D0 == <<2024, 12, 30>>
D1 == <<2025, 1, 1>>
D2 == <<2025, 1, 2>>

\* The shifts an input may list.  s1, s2, s3 share a date: s1 overlaps s2 and
\* s3, which do not overlap each other.  s4 is an overnight shift two days
\* later, in the same ISO week (2025-W01) but the next calendar year.  s5 has
\* month 13, s6 has the start time "9", s7 is on a third date, the last has
\* no id.
ShiftCatalogue == {
    [id |-> "s1", date |-> D0, start_time |-> <<9, 0>>, end_time |-> <<17, 0>>,
     min_staff |-> 1, max_staff |-> 1],
    [id |-> "s2", date |-> D0, start_time |-> <<9, 0>>, end_time |-> <<12, 0>>,
     min_staff |-> 1, max_staff |-> 2, required_skills |-> {"rn"}],
    [id |-> "s3", date |-> D0, start_time |-> <<13, 0>>, end_time |-> <<16, 0>>,
     required_skills |-> {}],
    [id |-> "s4", date |-> D1, start_time |-> <<22, 0>>, end_time |-> <<6, 0>>,
     min_staff |-> 2],
    [id |-> "s5", date |-> <<2024, 13, 1>>, start_time |-> <<9, 0>>,
     end_time |-> <<13, 0>>],
    [id |-> "s6", date |-> D0, start_time |-> <<9>>, end_time |-> <<13, 0>>],
    [id |-> "s7", date |-> D2, start_time |-> <<9, 0>>, end_time |-> <<13, 0>>],
    [date |-> D0, start_time |-> <<9, 0>>, end_time |-> <<13, 0>>] }

\* The employees an input may list, in this order: any MaxEmployees of them.
EmployeeCatalogue == <<
    [id |-> "e1", skills |-> {"rn"}, max_hours_per_week |-> 8,
     max_consecutive_days |-> 1],
    [id |-> "e2", unavailable_dates |-> {D1}, max_consecutive_days |-> 0],
    [id |-> "e3", skills |-> {"rn", "icu"}, unavailable_dates |-> {D0},
     max_hours_per_week |-> 40] >>

NoPreferences == [e \in {} |-> 0]

\* The preference tables an input may carry: none; e2 preferring a shift it
\* lacks the skill for and one on a date it is unavailable, e1 avoiding s1;
\* an entry for an employee that does not exist; an entry naming a shift
\* that does not exist.
PreferenceCatalogue == {
    NoPreferences,
    ("e2" :> [preferred_shifts |-> {"s2", "s4"}]) @@ ("e1" :> [avoid_shifts |-> {"s1"}]),
    ("e9" :> [preferred_shifts |-> {"s1"}]),
    ("e1" :> [preferred_shifts |-> {"s99"}]) }

Injective(s) == \A i, j \in DOMAIN s : i # j => s[i] # s[j]

ShiftLists ==
    {s \in UNION {[1..n -> ShiftCatalogue] : n \in 0..MaxShifts} : Injective(s)}

EmployeeLists ==
    {SelectSeq(EmployeeCatalogue, LAMBDA r : r \in E) :
        E \in {X \in SUBSET Range(EmployeeCatalogue) : Cardinality(X) <= MaxEmployees}}

\* The weights an input may carry, in tenths: consecutive_days 30.7 and no
\* other key.
WeightCatalogue == {[consecutive_days |-> 307]}

\* an input has no 'weights' key (<<>>), or one of the catalogue
WeightOptions == {<<>>} \cup {<<w>> : w \in WeightCatalogue}

Problems ==
    {IF w = <<>>
        THEN [shifts |-> s, employees |-> e, preferences |-> p]
        ELSE [shifts |-> s, employees |-> e, preferences |-> p, weights |-> w[1]] :
        s \in ShiftLists, e \in EmployeeLists, p \in PreferenceCatalogue,
        w \in WeightOptions}

\* ------------------------------------------------------------ constructor
\* {r['id']: r for r in records}: keys in order of first insertion, each
\* holding the last record inserted under it
DictFromList(recs) ==
    LET idx == [i \in 1..Len(recs) |-> i]
        first == SelectSeq(idx, LAMBDA i : \A j \in 1..(i - 1) : recs[j]["id"] # recs[i]["id"])
        last(id) == CHOOSE i \in 1..Len(recs) :
                        /\ recs[i]["id"] = id
                        /\ \A j \in (i + 1)..Len(recs) : recs[j]["id"] # id
    IN  [k \in 1..Len(first) |-> recs[last(recs[first[k]]["id"])]]

\* __init__ raises KeyError when a shift or an employee has no 'id'
InitRaises(data) ==
    \/ \E r \in Range(data["shifts"]) : ~Has(r, "id")
    \/ \E r \in Range(data["employees"]) : ~Has(r, "id")

\* weights, in tenths, so that int() has something to truncate
_default_weights ==
    [shift_coverage |-> 1000, no_double_booking |-> 900, skill_requirements |-> 850,
     availability |-> 800, max_hours_per_week |-> 750, employee_preferences |-> 550,
     workload_fairness |-> 400, consecutive_days |-> 300, rest_periods |-> 250,
     shift_continuity |-> 200]

\* int(w) for a weight held in tenths
IntOf(w) == IF w >= 0 THEN w \div 10 ELSE -((-w) \div 10)

weights == Get(problem_data, "weights", _default_weights)

\* ------------------------------------------------------- self.* accessors
ShiftIds == [i \in 1..Len(shifts) |-> shifts[i]["id"]]
EmployeeIds == [i \in 1..Len(employees) |-> employees[i]["id"]]
ShiftOf(id) == shifts[CHOOSE i \in 1..Len(shifts) : shifts[i]["id"] = id]
EmployeeOf(id) == employees[CHOOSE i \in 1..Len(employees) : employees[i]["id"] = id]

\* _create_assignment_variables: one BoolVar per (employee, shift)
AssignmentVars == {<<e, s>> : e \in Range(EmployeeIds), s \in Range(ShiftIds)}

\* shifts_by_date[date]: the ids of the shifts of a date, in insertion order
ShiftsByDate(date) == SelectSeq(ShiftIds, LAMBDA s : ShiftOf(s)["date"] = date)

ShiftDates == {shifts[i]["date"] : i \in 1..Len(shifts)}

\* a linear constraint  sum(coef * var) op rhs  added by model.Add
Lin(kind, terms, op, rhs) == [kind |-> kind, terms |-> terms, op |-> op, rhs |-> rhs]

\* ------------------------------------------------------ constraint builder
\* mutant: the upper bound is not added
CoverageConstraints_NoMax ==
    {Lin("coverage", {<<<<e, sid>>, 1>> : e \in Range(EmployeeIds)}, ">=",
         Get(ShiftOf(sid), "min_staff", 1)) : sid \in Range(ShiftIds)}

\* _add_shift_coverage_constraints: min_staff <= assigned <= max_staff
CoverageConstraints ==
    UNION {
        LET shift == ShiftOf(sid)
            min_staff == Get(shift, "min_staff", 1)
            max_staff == Get(shift, "max_staff", min_staff + 2)
            assignments_for_shift == {<<<<e, sid>>, 1>> : e \in Range(EmployeeIds)}
        IN  {Lin("coverage", assignments_for_shift, ">=", min_staff),
             Lin("coverage", assignments_for_shift, "<=", max_staff)}
        : sid \in Range(ShiftIds)}

\* the group _find_overlapping_shifts forms for position i of shift_ids
OverlapGroup(shift_ids, i) ==
    <<shift_ids[i]>> \o
    SelectSeq(SubSeq(shift_ids, i + 1, Len(shift_ids)),
              LAMBDA s2 : _shifts_overlap(ShiftOf(shift_ids[i]), ShiftOf(s2)))

\* mutant: each shift is compared with the next one only
_find_overlapping_shifts_adjacent(shift_ids) ==
    SelectSeq([i \in 1..Len(shift_ids) |->
                  <<shift_ids[i]>> \o
                  SelectSeq(SubSeq(shift_ids, i + 1, IF i < Len(shift_ids) THEN i + 1 ELSE i),
                            LAMBDA s2 : _shifts_overlap(ShiftOf(shift_ids[i]), ShiftOf(s2)))],
              LAMBDA g : Len(g) > 1)

_find_overlapping_shifts(shift_ids) ==
    SelectSeq([i \in 1..Len(shift_ids) |-> OverlapGroup(shift_ids, i)],
              LAMBDA g : Len(g) > 1)

\* _add_no_double_booking_constraints: sum over each overlap group <= 1
NoDoubleBookingConstraints ==
    UNION {
        {Lin("no_double_booking", {<<<<e, s>>, 1>> : s \in Range(g)}, "<=", 1) :
            g \in UNION {Range(_find_overlapping_shifts(ShiftsByDate(d))) : d \in ShiftDates}}
        : e \in Range(EmployeeIds)}

\* mutant: the subset test is the wrong way round
SkillConstraints_Reversed ==
    {Lin("skill_requirements", {<<<<e, s>>, 1>>}, "==", 0) :
        <<e, s>> \in
            {v \in AssignmentVars :
                LET required_skills == Get(ShiftOf(v[2]), "required_skills", {})
                    employee_skills == Get(EmployeeOf(v[1]), "skills", {})
                IN  /\ required_skills # {}
                    /\ ~(employee_skills \subseteq required_skills)}}

\* _add_skill_requirements_constraints
SkillConstraints ==
    {Lin("skill_requirements", {<<<<e, s>>, 1>>}, "==", 0) :
        <<e, s>> \in
            {v \in AssignmentVars :
                LET required_skills == Get(ShiftOf(v[2]), "required_skills", {})
                    employee_skills == Get(EmployeeOf(v[1]), "skills", {})
                IN  /\ required_skills # {}
                    /\ ~(required_skills \subseteq employee_skills)}}

\* _add_availability_constraints
AvailabilityConstraints ==
    {Lin("availability", {<<<<e, s>>, 1>>}, "==", 0) :
        <<e, s>> \in
            {v \in AssignmentVars :
                ShiftOf(v[2])["date"] \in Get(EmployeeOf(v[1]), "unavailable_dates", {})}}

\* shifts_by_week[week_key]: the ids of the shifts whose date has that key
ShiftsByWeek(week_key) ==
    {s \in Range(ShiftIds) : _get_week_key(ShiftOf(s)["date"]) = week_key}

WeekKeys == {_get_week_key(d) : d \in ShiftDates}

\* _add_max_hours_constraints: sum(assignment * hours) <= max_hours, per week key
MaxHoursConstraints ==
    {Lin("max_hours_per_week",
         {<<<<e, s>>, _calculate_shift_hours(ShiftOf(s))>> : s \in ShiftsByWeek(k)},
         "<=", Get(EmployeeOf(e), "max_hours_per_week", 40)) :
        e \in Range(EmployeeIds), k \in WeekKeys}

\* ------------------------------------------------------- objective builder
_get_preference(employee_id, shift_id) ==
    IF ~Has(preferences, employee_id) THEN 0
    ELSE LET emp_prefs == preferences[employee_id]
         IN  IF shift_id \in Get(emp_prefs, "preferred_shifts", {}) THEN 10
             ELSE IF shift_id \in Get(emp_prefs, "avoid_shifts", {}) THEN -10
             ELSE 0

\* the preference terms: var * preference * pref_weight
PreferenceTerms ==
    {<<v, _get_preference(v[1], v[2]) * IntOf(Get(weights, "employee_preferences", 550))>> :
        v \in AssignmentVars}

\* _add_consecutive_days_terms: one window per employee and start index i; days
\* holds, per date of the window, the assignment variables whose maximum is
\* that date's day_var; the term is -all_worked * weight
ConsecutiveDaysWindows ==
    LET sorted_dates == SortedDates(ShiftDates)
        weight == IntOf(Get(weights, "consecutive_days", 300))
    IN  UNION {
            LET max_consec == Get(EmployeeOf(e), "max_consecutive_days", 5)
            IN  {[employee |-> e, i |-> i, weight |-> weight,
                  days |-> [k \in 1..(max_consec + 1) |->
                              {<<e, s>> : s \in Range(ShiftsByDate(sorted_dates[i + k]))}]] :
                    i \in 0..(Len(sorted_dates) - max_consec - 1)}
            : e \in Range(EmployeeIds)}

\* NewBoolVar(f'worked_e{employee_id}_d{date}'), a fresh variable for each
\* window and each of its dates, and NewBoolVar(f'consec_e{employee_id}_w{i}')
DayVar(w, k) == <<"worked", w.employee, w.i, k>>
AllWorkedVar(w) == <<"consec", w.employee, w.i>>

DayVars == UNION {{DayVar(w, k) : k \in DOMAIN w.days} : w \in ConsecutiveDaysWindows}
AllWorkedVars == {AllWorkedVar(w) : w \in ConsecutiveDaysWindows}

\* AddMaxEquality(day_var, [the employee's assignments on that date])
MaxEqualities ==
    UNION {{[target |-> DayVar(w, k), of |-> w.days[k]] : k \in DOMAIN w.days} :
            w \in ConsecutiveDaysWindows}

\* sum(day_worked) over the day variables of a window
DayWorkedSum(w) == {<<DayVar(w, k), 1>> : k \in DOMAIN w.days}

\* only  Add(sum(day_worked) == len(day_worked)).OnlyEnforceIf(all_worked)
ReifiedConstraints_OnlyIfTrue ==
    {[lit |-> AllWorkedVar(w), enforce_if |-> TRUE, terms |-> DayWorkedSum(w),
      op |-> "==", rhs |-> Len(w.days)] : w \in ConsecutiveDaysWindows}

\* Add(sum(day_worked) == len(day_worked)).OnlyEnforceIf(all_worked) and
\* Add(sum(day_worked) < len(day_worked)).OnlyEnforceIf(all_worked.Not())
ReifiedConstraints ==
    UNION {{[lit |-> AllWorkedVar(w), enforce_if |-> TRUE, terms |-> DayWorkedSum(w),
             op |-> "==", rhs |-> Len(w.days)],
            [lit |-> AllWorkedVar(w), enforce_if |-> FALSE, terms |-> DayWorkedSum(w),
             op |-> "<", rhs |-> Len(w.days)]} : w \in ConsecutiveDaysWindows}

\* terms.append(-all_worked * weight)
ConsecutiveDaysTerms == {<<AllWorkedVar(w), -w.weight>> : w \in ConsecutiveDaysWindows}

\* ------------------------------------------------------------- build_model
\* _add_no_double_booking_constraints raises: shift['date'] of every shift is
\* read once there is an employee, and _shifts_overlap parses the four times
\* of every pair of shifts that share a date
NoDoubleBookingRaises ==
    /\ Len(employees) > 0
    /\ \/ \E s \in Range(shifts) : ~Has(s, "date")
       \/ \E i, j \in 1..Len(shifts) :
            /\ i < j
            /\ shifts[i]["date"] = shifts[j]["date"]
            /\ \E s \in {shifts[i], shifts[j]} : \E f \in {"start_time", "end_time"} :
                    ~Has(s, f) \/ ~ValidTime(s[f])

\* _add_max_hours_constraints raises: every shift's date is parsed, and every
\* shift's hours are computed once there is an employee
MaxHoursRaises ==
    \/ \E s \in Range(shifts) : ~Has(s, "date") \/ ~ValidDate(s["date"])
    \/ /\ Len(employees) > 0
       /\ \E s \in Range(shifts) : \E f \in {"start_time", "end_time"} :
                ~Has(s, f) \/ ~ValidTime(s[f])

BuildRaises == NoDoubleBookingRaises \/ MaxHoursRaises

BuiltModel ==
    [vars |-> AssignmentVars \cup DayVars \cup AllWorkedVars,
     constraints |-> CoverageConstraints \cup NoDoubleBookingConstraints
                     \cup SkillConstraints \cup AvailabilityConstraints
                     \cup MaxHoursConstraints,
     max_equalities |-> MaxEqualities,
     reified |-> ReifiedConstraints,
     objective |-> PreferenceTerms \cup ConsecutiveDaysTerms]

NoModel ==
    [vars |-> {}, constraints |-> {}, max_equalities |-> {}, reified |-> {},
     objective |-> {}]

\* ------------------------------------------------------ the CP-SAT solver
\* value of a linear expression under the assignment that sets exactly the
\* variables of A to 1
LinValue(terms, A) ==
    LET on == {t \in terms : t[1] \in A}
    IN  SumOver(on, [t \in on |-> t[2]])

Holds(c, A) ==
    LET v == LinValue(c.terms, A)
    IN  CASE c.op = ">=" -> v >= c.rhs
          [] c.op = "<=" -> v <= c.rhs
          [] c.op = "==" -> v = c.rhs
          [] c.op = "<" -> v < c.rhs

\* variables fixed to 0 by a constraint  var == 0
FixedFalse(m) ==
    {t[1] : t \in UNION {c.terms : c \in {x \in m.constraints : x.op = "==" /\ x.rhs = 0}}}

\* the targets of the max-equalities and the literals of the reified
\* constraints; the other variables occur in the linear constraints
MaxTargets(m) == {q.target : q \in m.max_equalities}
Literals(m) == {r.lit : r \in m.reified}

\* the value a max-equality forces on its target: 1 exactly when one of the
\* variables it ranges over is 1 (they are never targets themselves)
TargetsOn(m, A) == {q.target : q \in {x \in m.max_equalities : x.of \cap A # {}}}

\* a reified constraint binds only when its literal has the enforcing value
ReifiedHolds(r, X) == ((r.lit \in X) = r.enforce_if) => Holds(r, X)

\* the assignments that satisfy every constraint of the model: each is the
\* set of the variables it sets to 1
Feasible(m) ==
    LET free == (m.vars \ MaxTargets(m)) \ Literals(m)
        linear == {A \in SUBSET (free \ FixedFalse(m)) :
                        \A c \in m.constraints : Holds(c, A)}
    IN  UNION {{A \cup TargetsOn(m, A) \cup L :
                    L \in {K \in SUBSET Literals(m) :
                            \A r \in m.reified :
                                ReifiedHolds(r, A \cup TargetsOn(m, A) \cup K)}} :
                A \in linear}

ObjectiveValue(m, A) == LinValue(m.objective, A)

Optimal(m) ==
    LET F == Feasible(m)
    IN  {A \in F : \A B \in F : ObjectiveValue(m, B) <= ObjectiveValue(m, A)}

\* What solver.Solve(model) may return: a status code and, with OPTIMAL or
\* FEASIBLE, the assignment found.  OPTIMAL comes with a maximiser, FEASIBLE
\* (search cut short) with any satisfying assignment, INFEASIBLE only when
\* there is none; UNKNOWN, MODEL_INVALID and an unmapped code carry nothing.
SolverReturns(m) ==
    {<<cp_OPTIMAL, A>> : A \in Optimal(m)}
    \cup {<<cp_FEASIBLE, A>> : A \in Feasible(m)}
    \cup (IF Feasible(m) = {} THEN {<<cp_INFEASIBLE, {}>>} ELSE {})
    \cup {<<cp_UNKNOWN, {}>>, <<cp_MODEL_INVALID, {}>>, <<cp_UNMAPPED, {}>>}

\* ------------------------------------------------------ solve orchestrator
status_map ==
    (cp_OPTIMAL :> "OPTIMAL") @@ (cp_FEASIBLE :> "FEASIBLE")
    @@ (cp_INFEASIBLE :> "INFEASIBLE") @@ (cp_MODEL_INVALID :> "MODEL_INVALID")
    @@ (cp_UNKNOWN :> "UNKNOWN")

_status_to_string(st) == Get(status_map, st, "UNKNOWN")

\* the keys of self.assignments in insertion order: shift by shift, and for
\* each shift employee by employee
AssignmentKeys ==
    LET nE == Len(employees)
    IN  [k \in 1..(Len(shifts) * nE) |->
            <<EmployeeIds[((k - 1) % nE) + 1], ShiftIds[((k - 1) \div nE) + 1]>>]

_extract_solution(A) ==
    LET chosen == SelectSeq(AssignmentKeys, LAMBDA v : v \in A)
    IN  [k \in 1..Len(chosen) |->
            LET shift == ShiftOf(chosen[k][2])
            IN  [employee_id |-> chosen[k][1], shift_id |-> chosen[k][2],
                 date |-> shift["date"], start_time |-> shift["start_time"],
                 end_time |-> shift["end_time"],
                 hours |-> _calculate_shift_hours(shift)]]

\* coverage_percentage is the fraction fully_covered * 100 / total_shifts, kept
\* as <<numerator, denominator>>; <<0, 1>> when there are no shifts
_calculate_coverage_stats(assignments) ==
    LET shift_counts(sid) ==
            Cardinality({k \in 1..Len(assignments) : assignments[k]["shift_id"] = sid})
        total_shifts == Len(shifts)
        fully_covered ==
            Cardinality({i \in 1..Len(shifts) :
                shift_counts(shifts[i]["id"]) >= Get(shifts[i], "min_staff", 1)})
    IN  [total_shifts |-> total_shifts, fully_covered_shifts |-> fully_covered,
         coverage_percentage |->
            IF total_shifts > 0 THEN <<fully_covered * 100, total_shifts>> ELSE <<0, 1>>]

\* mutant: the solution is extracted and the statistics are filled in whatever
\* the status
SolveResult_AlwaysExtracts(st, A) ==
    LET assignments == _extract_solution(A)
    IN  [status |-> _status_to_string(st),
         objective_value |-> IF st \in {cp_OPTIMAL, cp_FEASIBLE}
                             THEN <<ObjectiveValue(model, A)>> ELSE <<>>,
         solve_time_seconds |-> 0,
         assignments |-> assignments,
         statistics |-> [num_branches |-> 0, num_conflicts |-> 0,
                         is_optimal |-> (st = cp_OPTIMAL),
                         total_assigned_shifts |-> Len(assignments),
                         coverage_stats |-> _calculate_coverage_stats(assignments)]]

\* The dict solve() returns for the solver's status st and assignment A.
\* None is <<>> and a value v is <<v>>; the solver's wall time and search
\* counters are opaque and kept as 0.
SolveResult(st, A) ==
    LET found == st \in {cp_OPTIMAL, cp_FEASIBLE}
        base == [status |-> _status_to_string(st),
                 objective_value |-> IF found THEN <<ObjectiveValue(model, A)>> ELSE <<>>,
                 solve_time_seconds |-> 0,
                 assignments |-> <<>>,
                 statistics |-> [num_branches |-> 0, num_conflicts |-> 0,
                                 is_optimal |-> (st = cp_OPTIMAL)]]
    IN  IF found
        THEN LET assignments == _extract_solution(A)
             IN  [base EXCEPT
                    !.assignments = assignments,
                    !.statistics = ("total_assigned_shifts" :> Len(assignments))
                        @@ ("coverage_stats" :> _calculate_coverage_stats(assignments))
                        @@ base.statistics]
        ELSE base

\* mutant: only INFEASIBLE counts as failure
ExitCodeOf_OnlyInfeasibleFails(status_string) ==
    IF status_string # "INFEASIBLE" THEN 0 ELSE 1

\* the exit code main() passes to sys.exit for a result status
ExitCodeOf(status_string) == IF status_string \in {"OPTIMAL", "FEASIBLE"} THEN 0 ELSE 1

\* ------------------------------------------------------------------ main()
Init ==
    /\ problem_data \in Problems
    /\ pc = "start"
    /\ shifts = <<>>
    /\ employees = <<>>
    /\ preferences = NoPreferences
    /\ model = NoModel
    /\ solver_calls = 0
    /\ status = -1
    /\ result = <<>>
    /\ output = ""
    /\ exit_code = -1
    /\ week_args = <<>>
    /\ week_keys = <<>>
    /\ overlapping = <<>>

\* ScheduleOptimizerORTools(problem_data) returns
ConstructOk ==
    /\ pc = "start"
    /\ ~InitRaises(problem_data)
    /\ shifts' = DictFromList(problem_data["shifts"])
    /\ employees' = DictFromList(problem_data["employees"])
    /\ preferences' = Get(problem_data, "preferences", NoPreferences)
    /\ pc' = "constructed"
    /\ UNCHANGED <<problem_data, model, solver_calls, status, result, output,
                   exit_code, week_args, week_keys, overlapping>>

\* ScheduleOptimizerORTools(problem_data) raises
ConstructRaises ==
    /\ pc = "start"
    /\ InitRaises(problem_data)
    /\ pc' = "error"
    /\ UNCHANGED <<problem_data, shifts, employees, preferences, model, solver_calls,
                   status, result, output, exit_code, week_args, week_keys, overlapping>>

\* optimizer.build_model() returns
BuildModelOk ==
    /\ pc = "constructed"
    /\ ~BuildRaises
    /\ model' = BuiltModel
    /\ pc' = "built"
    /\ UNCHANGED <<problem_data, shifts, employees, preferences, solver_calls, status,
                   result, output, exit_code, week_args, week_keys, overlapping>>

\* optimizer.build_model() raises
BuildModelRaises ==
    /\ pc = "constructed"
    /\ BuildRaises
    /\ pc' = "error"
    /\ UNCHANGED <<problem_data, shifts, employees, preferences, model, solver_calls,
                   status, result, output, exit_code, week_args, week_keys, overlapping>>

\* optimizer.solve() up to its blocking call solver.Solve(self.model)
SolveInvoke ==
    /\ pc = "built"
    /\ solver_calls' = solver_calls + 1
    /\ pc' = "solving"
    /\ UNCHANGED <<problem_data, shifts, employees, preferences, model, status, result,
                   output, exit_code, week_args, week_keys, overlapping>>

\* solver.Solve returns and solve() builds its result
SolveReturn ==
    /\ pc = "solving"
    /\ \E r \in SolverReturns(model) :
        /\ status' = r[1]
        /\ result' = SolveResult(r[1], r[2])
    /\ pc' = "solved"
    /\ UNCHANGED <<problem_data, shifts, employees, preferences, model, solver_calls,
                   output, exit_code, week_args, week_keys, overlapping>>

\* main() writes the result and exits with the code of its status
Report ==
    /\ pc = "solved"
    /\ output' = result["status"]
    /\ exit_code' = ExitCodeOf(result["status"])
    /\ pc' = "exited"
    /\ UNCHANGED <<problem_data, shifts, employees, preferences, model, solver_calls,
                   status, result, week_args, week_keys, overlapping>>

\* main()'s except branch: the ERROR payload and exit code 2
ReportError ==
    /\ pc = "error"
    /\ output' = "ERROR"
    /\ exit_code' = 2
    /\ pc' = "exited"
    /\ UNCHANGED <<problem_data, shifts, employees, preferences, model, solver_calls,
                   status, result, week_args, week_keys, overlapping>>

Next ==
    \/ ConstructOk
    \/ ConstructRaises
    \/ BuildModelOk
    \/ BuildModelRaises
    \/ SolveInvoke
    \/ SolveReturn
    \/ Report
    \/ ReportError

Spec == Init /\ [][Next]_vars

\* ------------------------------------------ _get_week_key on pairs of dates
\* days 1..4 and 28..31 of January and December of NumYears years from 2020
WeekDates ==
    {<<y, m, d>> : y \in 2020..(2020 + NumYears - 1), m \in {1, 12},
                   d \in (1..4) \cup (28..31)}

NoProblem == [shifts |-> <<>>, employees |-> <<>>, preferences |-> NoPreferences]

InitWeek ==
    /\ week_args \in WeekDates \X WeekDates
    /\ pc = "week"
    /\ week_keys = <<>>
    /\ problem_data = NoProblem
    /\ shifts = <<>>
    /\ employees = <<>>
    /\ preferences = NoPreferences
    /\ model = NoModel
    /\ solver_calls = 0
    /\ status = -1
    /\ result = <<>>
    /\ output = ""
    /\ exit_code = -1
    /\ overlapping = <<>>

GetWeekKeys ==
    /\ pc = "week"
    /\ week_keys' = <<_get_week_key(week_args[1]), _get_week_key(week_args[2])>>
    /\ pc' = "week_done"
    /\ UNCHANGED <<problem_data, shifts, employees, preferences, model, solver_calls,
                   status, result, output, exit_code, week_args, overlapping>>

NextWeek == GetWeekKeys

SpecWeek == InitWeek /\ [][NextWeek]_vars

\* --------------------------- _find_overlapping_shifts on lists of one date
\* shifts of one date: the three of the catalogue, the spec's example windows
\* 12:00-16:00 and 16:00-20:00, and an overnight one
SameDateCatalogue == {
    [id |-> "s1", date |-> D0, start_time |-> <<9, 0>>, end_time |-> <<17, 0>>],
    [id |-> "s2", date |-> D0, start_time |-> <<9, 0>>, end_time |-> <<12, 0>>],
    [id |-> "s3", date |-> D0, start_time |-> <<13, 0>>, end_time |-> <<16, 0>>],
    [id |-> "s4", date |-> D0, start_time |-> <<12, 0>>, end_time |-> <<16, 0>>],
    [id |-> "s5", date |-> D0, start_time |-> <<16, 0>>, end_time |-> <<20, 0>>],
    [id |-> "s6", date |-> D0, start_time |-> <<22, 0>>, end_time |-> <<6, 0>>] }

SameDateLists ==
    {s \in UNION {[1..n -> SameDateCatalogue] : n \in 0..MaxSameDate} : Injective(s)}

InitOverlap ==
    /\ shifts \in SameDateLists
    /\ pc = "overlap"
    /\ overlapping = <<>>
    /\ problem_data = NoProblem
    /\ employees = <<>>
    /\ preferences = NoPreferences
    /\ model = NoModel
    /\ solver_calls = 0
    /\ status = -1
    /\ result = <<>>
    /\ output = ""
    /\ exit_code = -1
    /\ week_args = <<>>
    /\ week_keys = <<>>

FindOverlapping ==
    /\ pc = "overlap"
    /\ overlapping' = _find_overlapping_shifts(ShiftIds)
    /\ pc' = "overlap_done"
    /\ UNCHANGED <<problem_data, shifts, employees, preferences, model, solver_calls,
                   status, result, output, exit_code, week_args, week_keys>>

NextOverlap == FindOverlapping

SpecOverlap == InitOverlap /\ [][NextOverlap]_vars

\* ------------------------------------------------------------------ claims
\* solve() has returned a result
Returned == pc = "solved" \/ (pc = "exited" /\ output # "ERROR")

\* solve() has returned a solution
Solved == Returned /\ result["status"] \in {"OPTIMAL", "FEASIBLE"}

InputShifts == Range(problem_data["shifts"])
InputEmployees == Range(problem_data["employees"])
InputShift(id) == CHOOSE r \in InputShifts : r["id"] = id
InputEmployee(id) == CHOOSE r \in InputEmployees : r["id"] = id

\* the entries of the returned assignments list
Assigned == Range(result["assignments"])

\* C1: in every result with status OPTIMAL or FEASIBLE, each shift has at
\* least min_staff and at most max_staff assignments.
C1_CoverageWithinBounds ==
    Solved =>
        \A sh \in InputShifts :
            LET n == Cardinality({k \in DOMAIN result["assignments"] :
                        result["assignments"][k]["shift_id"] = sh["id"]})
                min_staff == Get(sh, "min_staff", 1)
                max_staff == Get(sh, "max_staff", min_staff + 2)
            IN  min_staff <= n /\ n <= max_staff

\* a solution of a problem with two employees who could both take s1
\* (max_staff 1): s1 has one of them, and s3 (min_staff and max_staff left to
\* their defaults) is staffed too
C1_Witness ==
    /\ Solved
    /\ {em["id"] : em \in InputEmployees} = {"e1", "e2"}
    /\ Cardinality({a \in Assigned : a["shift_id"] = "s1"}) = 1
    /\ \E b \in Assigned : b["shift_id"] = "s3"

\* C2: in every returned solution no employee has two distinct shifts of one
\* date that overlap (overlap: neither ends at or before the other's start),
\* in whatever order the shifts were loaded.
C2_NoOverlappingAssignments ==
    Solved =>
        \A a, b \in Assigned :
            (/\ a["employee_id"] = b["employee_id"]
             /\ a["shift_id"] # b["shift_id"]
             /\ a["date"] = b["date"])
            => ~_shifts_overlap(a, b)

\* three shifts of one date were loaded with the one that overlaps both others
\* last, and an employee works the two that do not overlap
C2_Witness ==
    /\ Solved
    /\ Len(problem_data["shifts"]) = 3
    /\ problem_data["shifts"][3]["id"] = "s1"
    /\ \E a, b \in Assigned :
        /\ a["employee_id"] = b["employee_id"]
        /\ a["shift_id"] = "s2"
        /\ b["shift_id"] = "s3"
    /\ \E a \in Assigned : a["shift_id"] = "s1"

\* C3: in every returned solution each assignment's shift requires only skills
\* the employee has and is not on a date the employee is unavailable, also
\* when the employee lists the shift as preferred.
C3_SkillsAndAvailability ==
    Solved =>
        \A a \in Assigned :
            LET sh == InputShift(a["shift_id"])
                em == InputEmployee(a["employee_id"])
            IN  /\ Get(sh, "required_skills", {}) \subseteq Get(em, "skills", {})
                /\ sh["date"] \notin Get(em, "unavailable_dates", {})

\* an OPTIMAL solution that staffs a shift which an employee of the problem
\* lists as preferred but lacks the skill for
C3_Witness ==
    /\ Solved
    /\ result["status"] = "OPTIMAL"
    /\ \E em \in InputEmployees : \E sh \in InputShifts :
        /\ Has(problem_data["preferences"], em["id"])
        /\ sh["id"] \in Get(problem_data["preferences"][em["id"]], "preferred_shifts", {})
        /\ ~(Get(sh, "required_skills", {}) \subseteq Get(em, "skills", {}))
        /\ \E a \in Assigned : a["shift_id"] = sh["id"]

\* C4: in every returned solution, for every employee and every ISO calendar
\* week, the hours of the employee's assigned shifts dated in that week sum to
\* at most the employee's max_hours_per_week (default 40).
C4_WeeklyHoursWithinCap ==
    Solved =>
        \A em \in InputEmployees :
            \A w \in {IsoWeekOf(a["date"]) : a \in Assigned} :
                LET mine == {a \in Assigned :
                                /\ a["employee_id"] = em["id"]
                                /\ IsoWeekOf(a["date"]) = w}
                IN  SumOver(mine, [a \in mine |-> a["hours"]])
                        <= Get(em, "max_hours_per_week", 40)

\* C5: when the solver's status is not OPTIMAL or FEASIBLE, the result carries
\* the status (UNKNOWN for a code outside the status map), an empty
\* assignments list, objective value None, and neither coverage statistics
\* nor an assigned-shift total.
C5_FailureResultIsEmpty ==
    (Returned /\ status \notin {cp_OPTIMAL, cp_FEASIBLE}) =>
        /\ result["status"] =
              (IF status = cp_INFEASIBLE THEN "INFEASIBLE"
               ELSE IF status = cp_MODEL_INVALID THEN "MODEL_INVALID"
               ELSE "UNKNOWN")
        /\ result["assignments"] = <<>>
        /\ result["objective_value"] = <<>>
        /\ ~Has(result["statistics"], "coverage_stats")
        /\ ~Has(result["statistics"], "total_assigned_shifts")

\* the solver reported a code outside the status map for a model that has a
\* satisfying assignment
C5_Witness ==
    /\ pc = "solved"
    /\ status = cp_UNMAPPED
    /\ result["status"] = "UNKNOWN"
    /\ Feasible(model) # {}
    /\ Len(shifts) > 0

C6_Inv ==
    /\ solver_calls <= 1
    /\ pc \in {"start", "constructed", "built", "error"} => solver_calls = 0
    /\ Returned =>
        /\ solver_calls = 1
        /\ result["status"] \in
              {"OPTIMAL", "FEASIBLE", "INFEASIBLE", "MODEL_INVALID", "UNKNOWN"}
    /\ (pc = "exited" /\ output # "ERROR") =>
        /\ output = result["status"]
        /\ (exit_code = 0) <=> (result["status"] \in {"OPTIMAL", "FEASIBLE"})

C6_Step ==
    /\ pc' = "solving" => pc = "built"
    /\ pc = "solving" => pc' = "solved"
    /\ Returned => (pc' # "solving" /\ result' = result /\ status' = status
                    /\ solver_calls' = solver_calls)

\* C6: one solve goes BUILT -> SOLVING -> one terminal status, the solver is
\* invoked exactly once, no terminal status leads back to SOLVING, and the run
\* exits as success exactly when the status is OPTIMAL or FEASIBLE.
C6_OneSolveOneTerminalStatus == []C6_Inv /\ [][C6_Step]_vars

\* a run that ended after the solver gave up with UNKNOWN on a model that has
\* a satisfying assignment: reported as failure, the solver called once
C6_Witness ==
    /\ pc = "exited"
    /\ status = cp_UNKNOWN
    /\ Feasible(model) # {}
    /\ solver_calls = 1
    /\ exit_code = 1

\* the input has a validation error: a malformed date or time string, a
\* missing required field, or a preference entry naming an unknown employee
\* or shift
InvalidInput ==
    \/ \E r \in InputShifts :
        \/ \E f \in {"id", "date", "start_time", "end_time"} : ~Has(r, f)
        \/ Has(r, "date") /\ ~ValidDate(r["date"])
        \/ \E f \in {"start_time", "end_time"} : Has(r, f) /\ ~ValidTime(r[f])
    \/ \E r \in InputEmployees : ~Has(r, "id")
    \/ \E e \in DOMAIN problem_data["preferences"] :
        \/ e \notin {r["id"] : r \in {x \in InputEmployees : Has(x, "id")}}
        \/ \E f \in {"preferred_shifts", "avoid_shifts"} :
            \E sid \in Get(problem_data["preferences"][e], f, {}) :
                sid \notin {r["id"] : r \in {x \in InputShifts : Has(x, "id")}}

\* C7: every input with a validation error ends in the ERROR outcome without
\* the solver ever being invoked.
C7_ValidationErrorsAreFatal ==
    InvalidInput =>
        /\ solver_calls = 0
        /\ pc = "exited" => output = "ERROR"

\* C8: _get_week_key gives two dates the same key exactly when they fall in
\* the same ISO week (same ISO year and ISO week number).
C8_WeekKeyIffSameIsoWeek ==
    pc = "week_done" =>
        ((week_keys[1] = week_keys[2])
            <=> (IsoWeekOf(week_args[1]) = IsoWeekOf(week_args[2])))

\* C9: every group _find_overlapping_shifts returns has at least 2 members,
\* and any two distinct members of a group overlap.
C9_GroupsPairwiseOverlap ==
    pc = "overlap_done" =>
        \A k \in DOMAIN overlapping :
            LET g == overlapping[k]
            IN  /\ Len(g) >= 2
                /\ \A i, j \in DOMAIN g :
                    i # j => _shifts_overlap(ShiftOf(g[i]), ShiftOf(g[j]))

\* C10: for every employee and date, a set of that date's shifts satisfies all
\* the employee's no-double-booking constraints exactly when no two of its
\* shifts overlap.
C10_GroupConstraintsArePairwise ==
    pc \in {"built", "solving", "solved"} =>
        \A e \in Range(EmployeeIds) : \A d \in ShiftDates :
            \A X \in SUBSET Range(ShiftsByDate(d)) :
                (\A c \in {x \in model.constraints :
                              /\ x.kind = "no_double_booking"
                              /\ \A t \in x.terms : t[1][1] = e} :
                    Holds(c, {<<e, s>> : s \in X}))
                <=> (\A s, t \in X :
                        s # t => ~_shifts_overlap(ShiftOf(s), ShiftOf(t)))

\* ---------------------------------------------------------------- C11
\* the employee's limit, the distinct shift dates, and a date's position in
\* their ascending order
C11_MaxConsec(e) == Get(InputEmployee(e), "max_consecutive_days", 5)
C11_Dates == {s["date"] : s \in InputShifts}
C11_Rank(d) == Cardinality({x \in C11_Dates : DateBefore(x, d)})

\* max(0, D - max_consecutive_days)
C11_NumWindows(e) ==
    IF Cardinality(C11_Dates) > C11_MaxConsec(e)
    THEN Cardinality(C11_Dates) - C11_MaxConsec(e) ELSE 0

\* the max_consecutive_days + 1 dates of the window that starts at position i
C11_WindowDates(e, i) ==
    {d \in C11_Dates : C11_Rank(d) \in i..(i + C11_MaxConsec(e))}

\* the employee is assigned a shift of that date by the variables set in X
C11_WorkedOn(e, d, X) ==
    \E s \in InputShifts : s["date"] = d /\ <<e, s["id"]>> \in X

\* the consecutive_days weight truncated to an integer (weights are in tenths)
C11_Weight ==
    LET w == Get(weights, "consecutive_days", 300)
    IN  CHOOSE n \in 0..100 : n * 10 <= w /\ w < (n + 1) * 10

\* the windows the returned assignments work on every date
C11_WorkedWindows ==
    LET X == {<<a["employee_id"], a["shift_id"]>> : a \in Assigned}
    IN  {w \in UNION {{<<e, i>> : i \in 0..(C11_NumWindows(e) - 1)} :
                        e \in Range(EmployeeIds)} :
            \A d \in C11_WindowDates(w[1], w[2]) : C11_WorkedOn(w[1], d, X)}

\* C11: the built model has, for every employee, one window indicator per
\* start position 0 .. max(0, D - max_consecutive_days) - 1, D being the number
\* of distinct shift dates; the objective has exactly one term on each
\* indicator, with coefficient minus the truncated consecutive_days weight; in
\* every assignment that satisfies the model an indicator is true if and only
\* if the employee has a shift on every date of its window; and the objective
\* value solve() returns is the preference sum minus that weight once per
\* window worked on every date.
C11_ConsecutiveDaysIndicators ==
    /\ pc = "built" =>
        /\ \A e \in Range(EmployeeIds) :
            /\ {v \in Literals(model) : v[2] = e}
                = {<<"consec", e, i>> : i \in 0..(C11_NumWindows(e) - 1)}
            /\ Cardinality({v \in Literals(model) : v[2] = e}) = C11_NumWindows(e)
            /\ \A i \in 0..(C11_NumWindows(e) - 1) :
                /\ Cardinality(C11_WindowDates(e, i)) = C11_MaxConsec(e) + 1
                /\ {t \in model.objective : t[1] = <<"consec", e, i>>}
                    = {<<(<<"consec", e, i>>), -C11_Weight>>}
        /\ \A X \in Feasible(model) :
            \A e \in Range(EmployeeIds) : \A i \in 0..(C11_NumWindows(e) - 1) :
                (<<"consec", e, i>> \in X)
                    <=> (\A d \in C11_WindowDates(e, i) : C11_WorkedOn(e, d, X))
    /\ (pc = "solved" /\ Solved) =>
        LET X == {<<a["employee_id"], a["shift_id"]>> : a \in Assigned}
        IN  result["objective_value"]
                = <<LinValue(PreferenceTerms, X)
                    - C11_Weight * Cardinality(C11_WorkedWindows)>>

\* solve() returned a schedule in which e1, limited to 1 consecutive day,
\* works both shift dates and pays the truncated weight 30 for its one window,
\* while e3, with the default limit 5, has no window
C11_Witness ==
    /\ pc = "solved"
    /\ Solved
    /\ Has(problem_data, "weights")
    /\ {"e1", "e3"} \subseteq Range(EmployeeIds)
    /\ Cardinality(C11_Dates) = 2
    /\ C11_NumWindows("e1") = 1
    /\ C11_NumWindows("e3") = 0
    /\ <<"e1", 0>> \in C11_WorkedWindows
    /\ result["objective_value"] = <<-30>>

====
